---- MODULE Spec2Model ----
(***************************************************************************)
(* Unified realtime audio session layer of realtime-voice-comparison:      *)
(* UnifiedLiveClient over the two adapters (OpenAIRealtimeClient in webrtc *)
(* or websocket mode, GeminiClient), the App's capture path and the        *)
(* AudioStreamer playback queue.                                           *)
(*                                                                         *)
(* Every operation of the code is a function from a state record to a      *)
(* state record; an action applies one such function to the current state. *)
(* A connect attempt that is suspended at an await is a record in          *)
(* `attempt`; resuming it is an action of its own, so that calls and       *)
(* callbacks interleave with it exactly at the code's suspension points.   *)
(***************************************************************************)
EXTENDS Integers, Sequences, FiniteSets, TLC

\* Number of connect attempts (and so of transports) one behaviour may start.
MaxAttempts == 2
MaxSockets == 3
MaxConfigs == 2

\* Number of frames the capture callback delivers in one behaviour.
MaxFrames == 3

\* Number of inbound audio buffers handed to the AudioStreamer in one behaviour.
MaxBuffers == 4

\* Number of audio parts in one inbound Gemini modelTurn.
MaxParts == 2

Ids == 1..(IF MaxSockets > MaxAttempts THEN MaxSockets ELSE MaxAttempts)
Providers == {"gemini", "openai"}
ConnectionTypes == {"webrtc", "websocket"}

VARIABLES
  host,        \* the program that owns the adapters: "session" (UnifiedLiveClient)
               \* or "app" (the App component, which holds them directly)
  uclient,     \* UnifiedLiveClient: [status, provider]
  openai,      \* OpenAIRealtimeClient: [status, pc, dc, ws, audioElement, initialConfig, connectionType]
  gemini,      \* GeminiClient: [status, session]
  attempt,     \* attempt id -> [kind, at, opPc]: the suspended connect() calls
  pcState,     \* RTCPeerConnection objects, by the attempt that created them;
               \* "closed" is the state of every object that is closed or not made yet
  dcState,     \* RTCDataChannel objects
  dcOwner,     \* the peer connection a data channel was created on
  audioState,  \* HTMLAudioElement objects
  micState,    \* "live" once getUserMedia has handed out microphone tracks:
               \* no code of the adapter ever stops them
  wsState,     \* WebSocket objects (readyState, and whether close() is pending)
  sessState,   \* Gemini Session objects
  nextId,      \* the id the next attempt gets
  app,         \* App: its state and refs, and its AudioRecorder
  wire,        \* the audio messages the App's adapter put on its transport, in
               \* order: a frame's number, or 0 for a turnComplete
  streamer,    \* AudioStreamer: [audioQueue, isPlaying]
  audioOut,    \* the AudioContext: the sources that are being output, and the
               \* buffers in the order their sources were started
  last         \* what the last step did: call, result, events emitted, messages written

vars == <<host, uclient, openai, gemini, attempt, pcState, dcState, dcOwner,
          audioState, micState, wsState, sessState, nextId, app, wire, streamer,
          audioOut, last>>

\* kind, at: whose connect() it is and the await it is suspended at; opPc: the
\* peer connection the awaited operation was called on; cut: disconnect() was
\* called on its adapter while it was suspended; sw: switchProvider() left its
\* adapter while it was suspended and the session was connecting; failed: its
\* connect() returned false; first: the first message written to the socket
\* or data channel it made; configs: the session.update messages written to
\* it (counted up to MaxConfigs); lost: a step of the attempt has failed.
NoAttempt ==
  [kind |-> "free", at |-> "none", opPc |-> 0, cut |-> FALSE, sw |-> FALSE,
   failed |-> FALSE, first |-> "none", configs |-> 0, lost |-> FALSE]

\* op: the call, resumption or callback of the step; preU: the session status
\* it started from; res: what a call returned ("pending": a promise that is
\* not settled yet); fin, finOf: the result a suspended connect() settled
\* with, and its adapter; ev: the events emitted on the session, in order;
\* wr: the messages put on a transport, in order; closes: the close calls on
\* transport objects; started: the attempt a connect() started; exc: an
\* exception reached the caller; key: how getEphemeralKey ended in this step
\* ("issued", or "fallback" when the issuance failed); in: the message that
\* arrived on the socket or the data channel in this step; reason: what the
\* close event of this step carried ("event": the CloseEvent with its reason,
\* "absent": no argument); from: the adapters that emitted an event in this
\* step; gm: the message that arrived on the Gemini session in this step; au:
\* the parts of it emitted as audio events; content: the parts each content
\* event of the step carried; cb: the frame the AudioRecorder's data callback
\* was invoked with in this step (0: it was not invoked).
NoMsg == [parses |-> FALSE, type |-> "no message", delta |-> FALSE]

NoOut == [op |-> "init", preU |-> "disconnected",
          res |-> "none", fin |-> "none", finOf |-> "none",
          ev |-> <<>>, wr |-> <<>>,
          closes |-> 0, started |-> 0, exc |-> FALSE, key |-> "none",
          in |-> NoMsg, reason |-> "none", from |-> {},
          gm |-> [setupComplete |-> FALSE, interrupted |-> FALSE,
                  turnComplete |-> FALSE, modelTurn |-> FALSE, parts |-> <<>>],
          au |-> <<>>, content |-> <<>>, cb |-> 0]

\* App after mount: selectedModel 'gemini', nothing connected or recording.
\* interval: sendIntervalRef is set; buffer: audioChunkBufferRef; recorder:
\* the AudioRecorder ("idle", "starting": start() awaits getUserMedia,
\* "running": its processor is connected); onData: its onDataCallback is set;
\* recModel: the selectedModel the capture callback was created with; frames:
\* the frames the processor has produced.
\* dueGemini, dueOpenAI: the frames the callback got while the adapter it
\* sends to was connected; calls: the frames the recorder's data callback was
\* invoked with, in order.
NoApp == [selectedModel |-> "gemini", isConnected |-> FALSE,
          isRecording |-> FALSE, interval |-> FALSE, buffer |-> <<>>,
          recorder |-> "idle", onData |-> FALSE, recModel |-> "gemini",
          frames |-> 0, dueGemini |-> {}, dueOpenAI |-> {}, calls |-> <<>>]

\* playing: the buffers whose source is started and has not ended; started:
\* every buffer whose source was started, in that order; added: the buffers
\* handed to addPCM16 so far; cut: the buffers that were in the queue when an
\* interrupted event was emitted; held: the buffers that were in the queue
\* when the caller called disconnect().
NoAudioOut ==
  [playing |-> {}, started |-> <<>>, added |-> 0, cut |-> {}, held |-> {}]

\* The state as one record, so that operations compose as the code's calls do.
Cur ==
  [u |-> uclient, o |-> openai, g |-> gemini, att |-> attempt,
   pcS |-> pcState, dcS |-> dcState, dcO |-> dcOwner, auS |-> audioState,
   micS |-> micState, wsS |-> wsState, gsS |-> sessState, next |-> nextId,
   h |-> host, a |-> app, w |-> wire, st |-> streamer, ao |-> audioOut,
   out |-> last]

ActiveStatus(s) ==
  IF s.u.provider = "gemini" THEN s.g.status ELSE s.o.status

\* The state a step starts from: the current state with a fresh step record.
Begin(op) ==
  [Cur EXCEPT !.out =
     [NoOut EXCEPT !.op = op, !.preU = uclient.status]]

Commit(s) ==
  /\ uclient' = s.u
  /\ openai' = s.o
  /\ gemini' = s.g
  /\ attempt' = s.att
  /\ pcState' = s.pcS
  /\ dcState' = s.dcS
  /\ dcOwner' = s.dcO
  /\ audioState' = s.auS
  /\ micState' = s.micS
  /\ wsState' = s.wsS
  /\ sessState' = s.gsS
  /\ nextId' = s.next
  /\ app' = s.a
  /\ wire' = s.w
  /\ streamer' = s.st
  /\ audioOut' = s.ao
  /\ UNCHANGED host

\* A step: the program state and the step's record.
Step(s) == Commit(s) /\ last' = s.out

-----------------------------------------------------------------------------
(* AudioStreamer                                                           *)

\* playQueue(): an empty queue ends playback; else the head of the queue is
\* shifted off, and a source for it is created and started.
StreamerPlayQueue(s) ==
  IF s.st.audioQueue = <<>> THEN [s EXCEPT !.st.isPlaying = FALSE]
  ELSE LET b == Head(s.st.audioQueue)
       IN [s EXCEPT !.st.isPlaying = TRUE,
                    !.st.audioQueue = Tail(@),
                    !.ao.playing = @ \cup {b},
                    !.ao.started = Append(@, b)]

\* addPCM16(pcm16Data)
StreamerAddPCM16(s) ==
  LET b == s.ao.added + 1
      s1 == [s EXCEPT !.ao.added = b, !.st.audioQueue = Append(@, b)]
  IN IF ~s1.st.isPlaying THEN StreamerPlayQueue(s1) ELSE s1

\* source.onended of buffer b
StreamerOnEnded(s, b) ==
  StreamerPlayQueue([s EXCEPT !.ao.playing = @ \ {b}])

\* The queue as it is when the caller calls disconnect().
QueuedAtDisconnect(s) ==
  [s EXCEPT !.ao.held = @ \cup {s.st.audioQueue[k] :
                                  k \in 1..Len(s.st.audioQueue)}]

\* stop(): the queue and the flag are reset; no source is stopped.
StreamerStop(s) ==
  [s EXCEPT !.st.audioQueue = <<>>, !.st.isPlaying = FALSE]

-----------------------------------------------------------------------------
(* UnifiedLiveClient: the handlers it registers on both adapters.          *)

Record(s, e) ==
  [s EXCEPT !.out.ev = Append(@, e),
            !.ao.cut = IF e = "interrupted"
                         THEN @ \cup {s.st.audioQueue[k] :
                                        k \in 1..Len(s.st.audioQueue)}
                         ELSE @]

\* useLiveAPI: the listeners it registers on the session.  interrupted stops
\* the AudioStreamer, audio is handed to it; the others change what is shown.
HookOn(s, e) ==
  CASE e = "interrupted" -> StreamerStop(s)
    [] e = "audio"       -> StreamerAddPCM16(s)
    [] OTHER             -> s

\* setupGeminiEvents / setupOpenAIEvents: every adapter event is re-emitted
\* on the session; open and close also set the session status.  Neither
\* handler looks at which provider is current.
UnifiedOn(s, e) ==
  CASE e = "open"  -> HookOn(Record([s EXCEPT !.u.status = "connected"], e), e)
    [] e = "close" -> HookOn(Record([s EXCEPT !.u.status = "disconnected"], e), e)
    [] OTHER       -> HookOn(Record(s, e), e)

\* setupGeminiHandlers / setupOpenAIHandlers of the App: open and close set
\* isConnected, audio is handed to the AudioStreamer; content, error and log
\* only change what is displayed, and no other event has a listener.
AppOn(s, e) ==
  CASE e = "open"  -> Record([s EXCEPT !.a.isConnected = TRUE], e)
    [] e = "close" -> Record([s EXCEPT !.a.isConnected = FALSE], e)
    [] e = "audio" -> StreamerAddPCM16(Record(s, e))
    [] OTHER       -> Record(s, e)

\* this.emit(e) of an adapter: the listeners of the program that holds it.
OpenAIEmit(s, e) ==
  LET s1 == [s EXCEPT !.out.from = @ \cup {"openai"}]
  IN IF s.h = "app" THEN AppOn(s1, e) ELSE UnifiedOn(s1, e)

GeminiEmit(s, e) ==
  LET s1 == [s EXCEPT !.out.from = @ \cup {"gemini"}]
  IN IF s.h = "app" THEN AppOn(s1, e) ELSE UnifiedOn(s1, e)

\* A connect() call that was suspended settles with result ok.
Settle(s, i, ok) ==
  [s EXCEPT !.att[i] = [s.att[i] EXCEPT !.kind = "free", !.at = "none",
                                        !.opPc = 0, !.cut = FALSE,
                                        !.failed = ~ok],
            !.out.fin = IF ok THEN "true" ELSE "false",
            !.out.finOf = IF s.att[i].kind = "gem" THEN "gemini" ELSE "openai"]

Pending(s, i) == s.att[i].at # "none"

-----------------------------------------------------------------------------
(* OpenAIRealtimeClient                                                    *)

\* What has been written to the socket or data channel id so far.
Sent(s, ch, id, msg) ==
  IF ch \notin {"ws", "dc"} THEN s
  ELSE [s EXCEPT !.att[id].first = IF @ = "none" THEN msg ELSE @,
                 !.att[id].configs =
                   IF msg = "session.update" /\ @ < MaxConfigs
                     THEN @ + 1 ELSE @]

Wrote(s, ch, id, msg) ==
  [Sent(s, ch, id, msg) EXCEPT
     !.out.wr = Append(@, [ch |-> ch, id |-> id, msg |-> msg, data |-> 0])]

\* A message that carries audio frame d.
WroteMedia(s, ch, id, msg, d) ==
  [Sent(s, ch, id, msg) EXCEPT
     !.out.wr = Append(@, [ch |-> ch, id |-> id, msg |-> msg, data |-> d])]

Threw(s) == [s EXCEPT !.out.exc = TRUE]

\* RTCDataChannel.send: throws unless the channel is open.
DataChannelSend(s, d, msg) ==
  IF s.dcS[d] = "open" THEN Wrote(s, "dc", d, msg) ELSE Threw(s)

\* WebSocket.send: throws while the socket is connecting, and discards the
\* data once it is closing or closed.
WebSocketSend(s, w, msg) ==
  CASE s.wsS[w] = "open"       -> Wrote(s, "ws", w, msg)
    [] s.wsS[w] = "connecting" -> Threw(s)
    [] OTHER                   -> s

\* send(data): written to the data channel (webrtc) or the WebSocket
\* (websocket) the adapter currently holds, if that one is open; else dropped.
OpenAISend(s, msg) ==
  IF s.o.connectionType = "webrtc" /\ s.o.dc # 0 /\ s.dcS[s.o.dc] = "open"
    THEN DataChannelSend(s, s.o.dc, msg)
  ELSE IF s.o.connectionType = "websocket" /\ s.o.ws # 0
          /\ s.wsS[s.o.ws] = "open"
    THEN WebSocketSend(s, s.o.ws, msg)
  ELSE s

\* sendAudio(audioData) without its test of the connection type
OpenAISendAudioAnyType(s) == OpenAISend(s, "input_audio_buffer.append")

\* sendAudio(audioData)
OpenAISendAudio(s) ==
  IF s.o.connectionType = "webrtc" THEN s
  ELSE IF s.o.ws # 0 /\ s.wsS[s.o.ws] = "open"
    THEN OpenAISend(s, "input_audio_buffer.append")
  ELSE s

\* sendText(text)
OpenAISendText(s) ==
  OpenAISend(OpenAISend(s, "conversation.item.create"), "response.create")

Closed(s) == [s EXCEPT !.out.closes = @ + 1]

\* RTCPeerConnection.close(): the connection and the channels created on it.
ClosePc(s, p) ==
  Closed([s EXCEPT
    !.pcS[p] = "closed",
    !.dcS = [d \in Ids |-> IF s.dcO[d] = p THEN "closed" ELSE s.dcS[d]],
    !.dcO = [d \in Ids |-> IF s.dcO[d] = p THEN 0 ELSE s.dcO[d]]])

\* RTCDataChannel.close()
CloseDc(s, d) == Closed([s EXCEPT !.dcS[d] = "closed", !.dcO[d] = 0])

\* WebSocket.close(): the close (or, before the socket opened, error and
\* close) events follow later as a task of their own.
CloseWs(s, w) ==
  Closed([s EXCEPT !.wsS[w] =
            CASE @ = "connecting" -> "aborting"
              [] @ = "open"       -> "closing"
              [] OTHER            -> @])

\* audioElement.pause(); srcObject = null
ReleaseAudio(s, a) == Closed([s EXCEPT !.auS[a] = "closed"])

\* disconnect()
OpenAIDisconnect(s) ==
  LET s1 == IF s.o.pc # 0 THEN [ClosePc(s, s.o.pc) EXCEPT !.o.pc = 0] ELSE s
      s2 == IF s1.o.dc # 0 THEN [CloseDc(s1, s1.o.dc) EXCEPT !.o.dc = 0] ELSE s1
      s3 == IF s2.o.ws # 0 THEN [CloseWs(s2, s2.o.ws) EXCEPT !.o.ws = 0] ELSE s2
      s4 == IF s3.o.audioElement # 0
              THEN [ReleaseAudio(s3, s3.o.audioElement)
                      EXCEPT !.o.audioElement = 0]
              ELSE s3
  IN [s4 EXCEPT !.o.status = "disconnected", !.out.res = "true",
                !.att = [i \in Ids |->
                           IF s.att[i].kind \in {"rtc", "ws"}
                           THEN [s.att[i] EXCEPT !.cut = TRUE]
                           ELSE s.att[i]]]

\* connect(): the guard on the adapter's own status.
OpenAIConnectRejects(s) == s.o.status \in {"connected", "connecting"}

\* connect() up to its first suspension.  webrtc: connectWebRTC awaits
\* getEphemeralKey.  websocket: connectWebSocket creates the socket, sets its
\* handlers and the timeout, and awaits the promise.
OpenAIConnect(s) ==
  IF OpenAIConnectRejects(s) THEN [s EXCEPT !.out.res = "false"]
  ELSE LET i == s.next
           s1 == [s EXCEPT !.o.status = "connecting", !.next = @ + 1,
                           !.out.res = "pending", !.out.started = i]
       IN IF s.o.connectionType = "webrtc"
            THEN [s1 EXCEPT !.att[i] = [NoAttempt EXCEPT !.kind = "rtc", !.at = "key"]]
            ELSE [s1 EXCEPT !.att[i] = [NoAttempt EXCEPT !.kind = "ws", !.at = "wsopen"],
                            !.o.ws = i,
                            !.wsS[i] = "connecting"]

\* The catch of connect(): whatever connectWebRTC / connectWebSocket threw.
OpenAIConnectCatch(s, i) ==
  Settle([s EXCEPT !.o.status = "disconnected"], i, FALSE)

(* connectWebRTC, one function per resumption.                             *)

\* getEphemeralKey: a fetch that fails or a response that is not ok is
\* caught, and the API key is returned in place of an ephemeral key.
GetEphemeralKey(s, ok) ==
  [s EXCEPT !.out.key = IF ok THEN "issued" ELSE "fallback"]

\* after `await this.getEphemeralKey(...)`, which never throws.
RtcAfterKey(s, i, ok) ==
  [GetEphemeralKey(s, ok) EXCEPT !.o.initialConfig = TRUE,
            !.o.pc = i, !.pcS[i] = "new",
            !.o.audioElement = i, !.auS[i] = "live",
            !.att[i].at = "mic", !.att[i].lost = ~ok]

\* after `await getUserMedia(...)`: a failure is caught and logged; then the
\* data channel is created on this.pc and createOffer is called on it.
RtcAfterMic(s, i, ok) ==
  LET s1 == IF ok THEN [s EXCEPT !.micS = "live"]
                  ELSE [s EXCEPT !.att[i].lost = TRUE]
  IN IF s1.o.pc = 0 THEN OpenAIConnectCatch(s1, i)
     ELSE [s1 EXCEPT !.o.dc = i, !.dcS[i] = "connecting", !.dcO[i] = s1.o.pc,
                     !.att[i].at = "offer", !.att[i].opPc = s1.o.pc]

\* after `await this.pc.createOffer()`: setLocalDescription on this.pc.
RtcAfterOffer(s, i, ok) ==
  IF ~ok \/ s.o.pc = 0 THEN OpenAIConnectCatch(s, i)
  ELSE [s EXCEPT !.att[i].at = "local", !.att[i].opPc = s.o.pc]

\* after `await this.pc.setLocalDescription(offer)`: the signalling fetch.
RtcAfterLocal(s, i, ok) ==
  IF ~ok THEN OpenAIConnectCatch(s, i)
  ELSE [s EXCEPT !.att[i].at = "sdp", !.att[i].opPc = 0]

\* after the signalling fetch and `await sdpResponse.text()`: a response that
\* is not ok throws; else setRemoteDescription on this.pc.
RtcAfterSdp(s, i, ok) ==
  IF ~ok \/ s.o.pc = 0 THEN OpenAIConnectCatch(s, i)
  ELSE [s EXCEPT !.att[i].at = "remote", !.att[i].opPc = s.o.pc]

\* after `await this.pc.setRemoteDescription(answer)`
RtcAfterRemote(s, i, ok) ==
  IF ~ok THEN OpenAIConnectCatch(s, i)
  ELSE LET p == s.att[i].opPc
           s1 == [s EXCEPT !.pcS[p] = "negotiated", !.o.status = "connected"]
       IN Settle(OpenAIEmit(s1, "open"), i, TRUE)

\* dc.onopen, set by setupDataChannel
DcOnOpen(s, d) ==
  LET s1 == [s EXCEPT !.dcS[d] = "open"]
  IN IF s1.o.initialConfig
       THEN [OpenAISend(s1, "session.update") EXCEPT !.o.initialConfig = FALSE]
       ELSE s1

(* connectWebSocket: the handlers of socket w, created by attempt w.       *)

\* ws.onopen without its session.update
WsOnOpenSilent(s, w) ==
  LET s1 == [s EXCEPT !.wsS[w] = "open", !.o.status = "connected"]
      s2 == OpenAIEmit(s1, "open")
  IN IF Pending(s2, w) THEN Settle(s2, w, TRUE) ELSE s2

\* ws.onopen
WsOnOpen(s, w) ==
  LET s1 == [s EXCEPT !.wsS[w] = "open", !.o.status = "connected"]
      s2 == OpenAISend(OpenAIEmit(s1, "open"), "session.update")
  IN IF Pending(s2, w) THEN Settle(s2, w, TRUE) ELSE s2

\* ws.onclose
WsOnClose(s, w) ==
  OpenAIEmit([s EXCEPT !.wsS[w] = "closed", !.o.status = "disconnected",
                       !.out.reason = "absent"],
             "close")

\* ws.onerror, the rejection it causes, and the close event of the same task.
WsOnError(s, w) ==
  LET s1 == OpenAIEmit(s, "error")
      s2 == IF Pending(s1, w) THEN OpenAIConnectCatch(s1, w) ELSE s1
  IN WsOnClose(s2, w)

\* the setTimeout callback of attempt w
WsTimeout(s, w) ==
  IF s.o.status # "connected" /\ Pending(s, w)
    THEN OpenAIConnectCatch(s, w)
    ELSE s

-----------------------------------------------------------------------------
(* Inbound messages of the realtime API.                                   *)

InboundTypes ==
  {"session.created", "session.updated", "response.audio.delta",
   "response.text.delta", "response.text.done", "response.done",
   "response.cancelled", "error", "unrecognized"}

\* What arrives on the socket or the data channel: text that JSON.parse
\* rejects, or a message with a type; delta: an audio delta carries data.
InboundData ==
  {[parses |-> FALSE, type |-> "none", delta |-> FALSE]}
    \cup {[parses |-> TRUE, type |-> ty, delta |-> FALSE] : ty \in InboundTypes}
    \cup {[parses |-> TRUE, type |-> "response.audio.delta", delta |-> TRUE]}

\* handleMessage(message) with the cases of response.done and
\* response.cancelled exchanged.
OpenAIHandleMessageSwapped(s, m) ==
  CASE m.type \in {"session.created", "session.updated"} -> s
    [] m.type = "response.audio.delta" ->
         IF m.delta /\ s.o.connectionType = "websocket"
           THEN OpenAIEmit(s, "audio") ELSE s
    [] m.type \in {"response.text.delta", "response.text.done"} ->
         OpenAIEmit(s, "content")
    [] m.type = "response.done" -> OpenAIEmit(s, "interrupted")
    [] m.type = "response.cancelled" -> OpenAIEmit(s, "turncomplete")
    [] m.type = "error" -> OpenAIEmit(s, "error")
    [] OTHER -> s

\* handleMessage without its test of the connection type
OpenAIHandleMessageAnyType(s, m) ==
  CASE m.type \in {"session.created", "session.updated"} -> s
    [] m.type = "response.audio.delta" ->
         IF m.delta THEN OpenAIEmit(s, "audio") ELSE s
    [] m.type \in {"response.text.delta", "response.text.done"} ->
         OpenAIEmit(s, "content")
    [] m.type = "response.done" -> OpenAIEmit(s, "turncomplete")
    [] m.type = "response.cancelled" -> OpenAIEmit(s, "interrupted")
    [] m.type = "error" -> OpenAIEmit(s, "error")
    [] OTHER -> s

\* handleMessage(message)
OpenAIHandleMessage(s, m) ==
  CASE m.type \in {"session.created", "session.updated"} -> s
    [] m.type = "response.audio.delta" ->
         IF m.delta /\ s.o.connectionType = "websocket"
           THEN OpenAIEmit(s, "audio") ELSE s
    [] m.type \in {"response.text.delta", "response.text.done"} ->
         OpenAIEmit(s, "content")
    [] m.type = "response.done" -> OpenAIEmit(s, "turncomplete")
    [] m.type = "response.cancelled" -> OpenAIEmit(s, "interrupted")
    [] m.type = "error" -> OpenAIEmit(s, "error")
    [] OTHER -> s

\* onmessage that reports what JSON.parse rejects as an error event.
OpenAIOnMessageReports(s, data) ==
  LET s1 == [s EXCEPT !.out.in = data]
  IN IF data.parses THEN OpenAIHandleMessage(s1, data)
     ELSE OpenAIEmit(s1, "error")

\* ws.onmessage / dc.onmessage: JSON.parse and handleMessage inside a try
\* whose catch only logs.
OpenAIOnMessage(s, data) ==
  LET s1 == [s EXCEPT !.out.in = data]
  IN IF data.parses THEN OpenAIHandleMessage(s1, data) ELSE s1

-----------------------------------------------------------------------------
(* GeminiClient                                                            *)

\* A write on the Session object: it reaches the wire only while the
\* session's socket is open (a browser WebSocket discards a send once it is
\* closing or closed, without throwing).
SessionWrite(s, msg) ==
  IF s.gsS[s.g.session] = "open" THEN Wrote(s, "gem", s.g.session, msg) ELSE s

\* A session that puts every chunk on the wire twice.
SessionWriteMediaTwice(s, chunk) ==
  IF s.gsS[s.g.session] = "open"
    THEN WroteMedia(WroteMedia(s, "gem", s.g.session, "realtimeInput", chunk),
                    "gem", s.g.session, "realtimeInput", chunk)
    ELSE s

\* session.sendRealtimeInput({ media: chunk })
SessionWriteMedia(s, chunk) ==
  IF s.gsS[s.g.session] = "open"
    THEN WroteMedia(s, "gem", s.g.session, "realtimeInput", chunk)
    ELSE s

\* connect(): the guard on the adapter's own status.
GeminiConnectRejects(s) == s.g.status \in {"connected", "connecting"}

\* connect() up to `await this.client.live.connect(...)`
GeminiConnect(s) ==
  IF GeminiConnectRejects(s)
    THEN [GeminiEmit(s, "log") EXCEPT !.out.res = "false"]
  ELSE LET i == s.next
           s1 == GeminiEmit([s EXCEPT !.g.status = "connecting"], "log")
       IN [s1 EXCEPT !.att[i] = [NoAttempt EXCEPT !.kind = "gem", !.at = "live"],
                     !.next = @ + 1,
                     !.out.res = "pending", !.out.started = i]

\* callbacks.onopen
GeminiOnOpen(s) ==
  GeminiEmit(GeminiEmit([s EXCEPT !.g.status = "connected"], "log"), "open")

\* callbacks.onerror
GeminiOnError(s) == GeminiEmit(GeminiEmit(s, "log"), "error")

\* callbacks.onclose of session i
GeminiOnClose(s, i) ==
  GeminiEmit(GeminiEmit([s EXCEPT !.g.status = "disconnected",
                                  !.gsS[i] = "closed",
                                  !.out.reason = "event"], "log"), "close")

GeminiKinds == {"setupComplete", "interrupted", "turnComplete", "modelTurn",
                "other"}

\* A part of a modelTurn: inlineData of type audio/pcm with data ("audio") or
\* without ("nodata"), a text part, or any other part.
GeminiPartKinds == {"audio", "nodata", "text", "other"}

GeminiParts == UNION {[1..n -> GeminiPartKinds] : n \in 0..MaxParts}

\* A LiveServerMessage: the fields handleMessage looks at, and the parts of
\* its modelTurn.
GeminiMessage(k, parts) ==
  [setupComplete |-> k = "setupComplete", interrupted |-> k = "interrupted",
   turnComplete |-> k = "turnComplete", modelTurn |-> k = "modelTurn",
   parts |-> parts]

\* The messages that have one of the fields: a modelTurn is a run of audio
\* parts, followed by a text part or not.
GeminiMessages ==
  {GeminiMessage(k, <<>>) : k \in GeminiKinds \ {"modelTurn"}}
    \cup {GeminiMessage("modelTurn", [i \in 1..n |-> "audio"] \o x) :
            n \in 0..MaxParts, x \in {<<>>, <<"text">>}}

\* Every combination of the fields; only a modelTurn has parts.
GeminiAnyMessages ==
  {m \in [setupComplete : BOOLEAN, interrupted : BOOLEAN,
           turnComplete : BOOLEAN, modelTurn : BOOLEAN, parts : GeminiParts] :
     ~m.modelTurn => m.parts = <<>>}

\* The kinds of part whose inlineData is of type audio/pcm, and the others.
AudioPartKinds == {"audio", "nodata"}

OtherPartKinds == GeminiPartKinds \ AudioPartKinds

\* parts.filter: the indices of the parts of one of the kinds, from the k-th
\* on, in part order.
RECURSIVE PartsOf(_, _, _)
PartsOf(parts, kinds, k) ==
  IF k > Len(parts) THEN <<>>
  ELSE (IF parts[k] \in kinds THEN <<k>> ELSE <<>>)
         \o PartsOf(parts, kinds, k + 1)

\* audioParts.forEach: a part that has data is emitted as audio, then logged.
RECURSIVE GeminiAudioParts(_, _, _)
GeminiAudioParts(s, parts, ks) ==
  IF ks = <<>> THEN s
  ELSE LET k == Head(ks)
           s1 == IF parts[k] = "audio"
                   THEN GeminiEmit(GeminiEmit(
                          [s EXCEPT !.out.au = Append(@, k)], "audio"), "log")
                   ELSE s
       IN GeminiAudioParts(s1, parts, Tail(ks))

\* The modelTurn branch of handleMessage.
GeminiModelTurn(s, parts) ==
  LET s1 == GeminiAudioParts(s, parts, PartsOf(parts, AudioPartKinds, 1))
      otherParts == PartsOf(parts, OtherPartKinds, 1)
      s2 == GeminiEmit([s1 EXCEPT !.out.content = Append(@, otherParts)],
                       "content")
  IN IF Len(otherParts) > 0
       THEN IF PartsOf(parts, {"text"}, 1) # <<>>
              THEN GeminiEmit(s2, "log") ELSE s2
       ELSE s1

\* handleMessage that tests turnComplete before interrupted
GeminiHandleMessageTurnFirst(s, m) ==
  IF m.setupComplete THEN GeminiEmit(GeminiEmit(s, "log"), "setupcomplete")
  ELSE IF m.turnComplete
    THEN GeminiEmit(GeminiEmit(s, "log"), "turncomplete")
  ELSE IF m.interrupted
    THEN GeminiEmit(GeminiEmit(s, "log"), "interrupted")
  ELSE IF m.modelTurn THEN GeminiModelTurn(s, m.parts)
  ELSE s

\* handleMessage(message)
GeminiHandleMessage(s, m) ==
  IF m.setupComplete THEN GeminiEmit(GeminiEmit(s, "log"), "setupcomplete")
  ELSE IF m.interrupted
    THEN GeminiEmit(GeminiEmit(s, "log"), "interrupted")
  ELSE IF m.turnComplete
    THEN GeminiEmit(GeminiEmit(s, "log"), "turncomplete")
  ELSE IF m.modelTurn THEN GeminiModelTurn(s, m.parts)
  ELSE s

\* after `await this.client.live.connect(...)`: the try's rest, or its catch
GeminiAfterConnect(s, i, ok) ==
  IF ok
    THEN Settle(GeminiEmit([s EXCEPT !.g.session = i, !.gsS[i] = "open"],
                           "log"), i, TRUE)
    ELSE LET s1 == GeminiEmit(GeminiEmit(s, "log"), "error")
         IN Settle([s1 EXCEPT !.g.status = "disconnected"], i, FALSE)

\* disconnect()
GeminiDisconnect(s) ==
  IF s.g.session # 0
    THEN LET i == s.g.session
             s1 == Closed([s EXCEPT !.gsS[i] =
                             IF @ = "open" THEN "closing" ELSE @])
         IN [GeminiEmit([s1 EXCEPT !.g.session = 0,
                                   !.g.status = "disconnected"], "log")
               EXCEPT !.out.res = "true"]
    ELSE [s EXCEPT !.out.res = "false"]

\* send(parts, turnComplete)
GeminiSend(s) ==
  IF s.g.session = 0 THEN GeminiEmit(s, "log")
  ELSE GeminiEmit(SessionWrite(s, "clientContent"), "log")

RECURSIVE GeminiSendChunks(_, _)
GeminiSendChunks(s, chunks) ==
  IF chunks = <<>> THEN s
  ELSE GeminiSendChunks(SessionWriteMedia(s, Head(chunks)), Tail(chunks))

\* sendRealtimeInput(chunks)
GeminiSendRealtimeInput(s, chunks) ==
  IF s.g.session = 0 THEN GeminiEmit(s, "log")
  ELSE LET s1 == GeminiSendChunks(s, chunks)
       IN IF Len(chunks) > 0 THEN GeminiEmit(s1, "log") ELSE s1

\* endTurn()
GeminiEndTurn(s) ==
  IF s.g.session = 0 THEN GeminiEmit(s, "log")
  ELSE GeminiEmit(SessionWrite(s, "turnComplete"), "log")

\* sendToolResponse(toolResponse) of the Gemini client the session imports
GeminiSendToolResponse(s) ==
  IF s.g.session = 0 THEN s ELSE SessionWrite(s, "toolResponse")

-----------------------------------------------------------------------------
(* UnifiedLiveClient: its operations.                                      *)

\* A weaker guard, which lets connect() through while the session is connecting.
UnifiedConnectRejectsConnectedOnly(s) == s.u.status = "connected"

\* connect(): the guard on the session status.
UnifiedConnectRejects(s) == s.u.status \in {"connected", "connecting"}

\* connect(model, config): `return await <adapter>.connect(...)`; neither
\* adapter's connect throws, so the catch is reached only when the adapter
\* object is missing.
UnifiedConnect(s) ==
  IF UnifiedConnectRejects(s) THEN [s EXCEPT !.out.res = "false"]
  ELSE LET s1 == [s EXCEPT !.u.status = "connecting"]
       IN IF s1.u.provider = "gemini" THEN GeminiConnect(s1)
          ELSE OpenAIConnect(s1)

\* disconnect()
UnifiedDisconnect(s) ==
  LET s0 == QueuedAtDisconnect(s)
      s1 == IF s.u.provider = "gemini" THEN GeminiDisconnect(s0)
            ELSE OpenAIDisconnect(s0)
  IN IF s1.out.res = "true" THEN [s1 EXCEPT !.u.status = "disconnected"]
     ELSE s1

\* switchProvider(provider) without its early return.
UnifiedSwitchProviderAlways(s, p) ==
  LET s1 == UnifiedDisconnect(s)
  IN Record([s1 EXCEPT !.u.provider = p, !.out.res = "none"],
            "providerChanged")

\* switchProvider(provider)
UnifiedSwitchProvider(s, p) ==
  IF p = s.u.provider THEN s
  ELSE LET s1 == UnifiedDisconnect(s)
           old == IF s.u.provider = "gemini" THEN {"gem"} ELSE {"rtc", "ws"}
       IN Record([s1 EXCEPT
                    !.u.provider = p, !.out.res = "none",
                    !.att = [i \in Ids |->
                               IF s.u.status = "connecting"
                                  /\ s1.att[i].kind \in old
                                 THEN [s1.att[i] EXCEPT !.sw = TRUE]
                                 ELSE s1.att[i]]],
                 "providerChanged")

\* sendRealtimeInput(chunks)
UnifiedSendRealtimeInput(s) ==
  IF s.u.provider = "gemini" THEN GeminiSendRealtimeInput(s, <<0>>) ELSE s

\* sendToolResponse(toolResponse)
UnifiedSendToolResponse(s) ==
  IF s.u.provider = "gemini" THEN GeminiSendToolResponse(s) ELSE s

\* send(parts, turnComplete)
UnifiedSend(s) ==
  IF s.u.provider = "gemini" THEN GeminiSend(s)
  ELSE OpenAISend(s, "parts")

\* sendAudio(audioData)
UnifiedSendAudio(s) ==
  IF s.u.provider = "openai" THEN OpenAISendAudio(s) ELSE s

\* sendText(text)
UnifiedSendText(s) ==
  IF s.u.provider = "openai" THEN OpenAISendText(s) ELSE GeminiSend(s)

-----------------------------------------------------------------------------
(* App: connection and capture.                                            *)

IsAudioMsg(m) ==
  m.msg \in {"realtimeInput", "turnComplete", "input_audio_buffer.append"}

\* The audio messages among the writes of a step, as entries of `wire`.
AudioOf(wr) ==
  LET f == SelectSeq(wr, IsAudioMsg) IN [k \in 1..Len(f) |-> f[k].data]

OnWire(s) == [s EXCEPT !.w = @ \o AudioOf(s.out.wr)]

\* new OpenAIRealtimeClient(openaiApiKey, 'webrtc')
NewOpenAIClient ==
  [status |-> "disconnected", pc |-> 0, dc |-> 0, ws |-> 0, audioElement |-> 0,
   initialConfig |-> FALSE, connectionType |-> "webrtc"]

\* connect(): the result of the adapter's connect is not looked at.
AppConnect(s) ==
  IF s.a.selectedModel = "gemini" THEN GeminiConnect(s)
  ELSE OpenAIConnect([s EXCEPT !.o = NewOpenAIClient])

\* AudioRecorder.stop(): the processor, source and stream it has are released.
RecorderStop(s) ==
  [s EXCEPT !.a.recorder = IF @ = "running" THEN "idle" ELSE @,
            !.a.onData = FALSE]

\* disconnect()
AppDisconnect(s) ==
  LET s1 == [QueuedAtDisconnect(s) EXCEPT !.a.interval = FALSE]
      s2 == IF s1.a.selectedModel = "gemini" THEN GeminiDisconnect(s1)
            ELSE OpenAIDisconnect(s1)
      s3 == StreamerStop(s2)
      s4 == IF s3.a.recorder = "running" THEN RecorderStop(s3) ELSE s3
  IN [s4 EXCEPT !.a.isConnected = FALSE, !.a.isRecording = FALSE]

\* AudioRecorder.start(onData) up to `await getUserMedia(...)`
RecorderStart(s) ==
  [s EXCEPT !.a.onData = TRUE, !.a.recorder = "starting"]

\* startRecording() up to `await audioRecorderRef.current?.start(...)`, which
\* awaits getUserMedia.
AppStartRecording(s) ==
  IF ~s.a.isConnected THEN s
  ELSE RecorderStart([s EXCEPT !.a.buffer = <<>>,
                               !.a.interval = @ \/ s.a.selectedModel = "gemini",
                               !.a.recModel = s.a.selectedModel])

\* AudioRecorder.start after getUserMedia: it connects its processor and
\* resolves, or it logs, rethrows and so rejects.
RecorderAfterGetUserMedia(s, ok) ==
  IF ok THEN [s EXCEPT !.a.recorder = "running", !.out.res = "resolved"]
  ELSE [s EXCEPT !.a.recorder = "idle", !.out.res = "rejected"]

\* startRecording that marks recording active whatever start() did.
AppAfterRecorderStartMarks(s, ok) ==
  [RecorderAfterGetUserMedia(s, ok) EXCEPT !.a.isRecording = TRUE]

\* startRecording after `await audioRecorderRef.current?.start(...)`: it sets
\* isRecording, or its catch alerts and logs.
AppAfterRecorderStart(s, ok) ==
  LET s1 == RecorderAfterGetUserMedia(s, ok)
  IN IF s1.out.res = "resolved" THEN [s1 EXCEPT !.a.isRecording = TRUE]
     ELSE s1

\* A capture callback that sends nothing.
AppOnAudioDataDrops(s, n) == s

\* The callback startRecording hands to AudioRecorder.start: each frame is
\* sent at once, to the adapter of the model selected when recording started.
AppOnAudioData(s, n) ==
  IF s.a.recModel = "gemini" THEN GeminiSendRealtimeInput(s, <<n>>)
  ELSE OpenAISendAudio(s)

\* The status of the adapter the capture callback sends to.
CaptureStatus(s) ==
  IF s.a.recModel = "gemini" THEN s.g.status ELSE s.o.status

\* processor.onaudioprocess: frame n is converted and, if a callback is set,
\* handed to it.
RecorderOnAudioProcess(s) ==
  LET n == s.a.frames + 1
      s1 == [s EXCEPT !.a.frames = n]
      due == CaptureStatus(s) = "connected"
      s2 == [s1 EXCEPT
               !.a.dueGemini = IF due /\ s.a.recModel = "gemini"
                                 THEN @ \cup {n} ELSE @,
               !.a.dueOpenAI = IF due /\ s.a.recModel = "openai"
                                 THEN @ \cup {n} ELSE @]
  IN IF s.a.onData
       THEN OnWire(AppOnAudioData([s2 EXCEPT !.out.cb = n,
                                             !.a.calls = Append(@, n)], n))
       ELSE s1

\* The setInterval callback of startRecording.
AppSendInterval(s) ==
  IF Len(s.a.buffer) > 0
    THEN [OnWire(GeminiSendRealtimeInput(s, s.a.buffer)) EXCEPT !.a.buffer = <<>>]
    ELSE s

\* stopRecording()
AppStopRecording(s) ==
  LET s1 == IF s.a.interval
              THEN LET c == [s EXCEPT !.a.interval = FALSE]
                   IN IF c.a.selectedModel = "gemini" /\ Len(c.a.buffer) > 0
                        THEN GeminiEndTurn(
                               [GeminiSendRealtimeInput(c, c.a.buffer)
                                  EXCEPT !.a.buffer = <<>>])
                        ELSE c
              ELSE s
  IN [OnWire(RecorderStop(s1)) EXCEPT !.a.isRecording = FALSE]

-----------------------------------------------------------------------------
(* The session specification: calls on the UnifiedLiveClient, resumptions  *)
(* of suspended connect attempts, and transport callbacks.                 *)

Init ==
  /\ host = "session"
  /\ uclient \in [status : {"disconnected"}, provider : Providers]
  /\ openai \in [status : {"disconnected"}, pc : {0}, dc : {0}, ws : {0},
                 audioElement : {0}, initialConfig : {FALSE},
                 connectionType : ConnectionTypes]
  /\ gemini = [status |-> "disconnected", session |-> 0]
  /\ attempt = [i \in Ids |-> NoAttempt]
  /\ pcState = [i \in Ids |-> "closed"]
  /\ dcState = [i \in Ids |-> "closed"]
  /\ dcOwner = [i \in Ids |-> 0]
  /\ audioState = [i \in Ids |-> "closed"]
  /\ micState = "none"
  /\ wsState = [i \in Ids |-> "closed"]
  /\ sessState = [i \in Ids |-> "closed"]
  /\ nextId = 1
  /\ app = NoApp
  /\ wire = <<>>
  /\ streamer = [audioQueue |-> <<>>, isPlaying |-> FALSE]
  /\ audioOut = NoAudioOut
  /\ last = NoOut

\* connect() starts an attempt when neither guard rejects it; the model
\* allows that only while attempt ids are left.
Starts(s) ==
  /\ ~UnifiedConnectRejects(s)
  /\ IF s.u.provider = "gemini" THEN ~GeminiConnectRejects(s)
     ELSE ~OpenAIConnectRejects(s)

HasId(s) == Starts(s) => s.next <= MaxAttempts

UConnect ==
  LET s == Begin("connect") IN HasId(s) /\ Step(UnifiedConnect(s))

UDisconnect ==
  LET s == UnifiedDisconnect(Begin("disconnect"))
  IN Commit(s) /\ last' = s.out

USwitchProvider == \E p \in Providers :
  LET s == UnifiedSwitchProvider(Begin("switchProvider"), p)
  IN Commit(s) /\ last' = s.out

HookConnect ==
  LET s == UnifiedDisconnect(Begin("hookConnect"))
  IN HasId(s) /\ Step(UnifiedConnect(s))

USendAudio ==
  LET s == UnifiedSendAudio(Begin("sendAudio"))
  IN Commit(s) /\ last' = s.out

USendText ==
  LET s == UnifiedSendText(Begin("sendText"))
  IN Commit(s) /\ last' = s.out

USend ==
  LET s == UnifiedSend(Begin("send"))
  IN Commit(s) /\ last' = s.out

USendRealtimeInput ==
  LET s == UnifiedSendRealtimeInput(Begin("sendRealtimeInput"))
  IN Commit(s) /\ last' = s.out

USendToolResponse ==
  LET s == UnifiedSendToolResponse(Begin("sendToolResponse"))
  IN Commit(s) /\ last' = s.out

At(i, kind, at) == attempt[i].kind = kind /\ attempt[i].at = at

\* A promise of an operation on a peer connection resolves only while that
\* connection is not closed.
PcAlive(i) == pcState[attempt[i].opPc] # "closed"

RtcKey == \E i \in Ids, ok \in BOOLEAN :
  At(i, "rtc", "key") /\ Step(RtcAfterKey(Begin("resume"), i, ok))

RtcMic == \E i \in Ids, ok \in BOOLEAN :
  At(i, "rtc", "mic") /\ Step(RtcAfterMic(Begin("resume"), i, ok))

RtcOffer == \E i \in Ids, ok \in BOOLEAN :
  /\ At(i, "rtc", "offer") /\ (ok => PcAlive(i))
  /\ Step(RtcAfterOffer(Begin("resume"), i, ok))

RtcLocal == \E i \in Ids, ok \in BOOLEAN :
  /\ At(i, "rtc", "local") /\ (ok => PcAlive(i))
  /\ Step(RtcAfterLocal(Begin("resume"), i, ok))

RtcSdp == \E i \in Ids, ok \in BOOLEAN :
  At(i, "rtc", "sdp") /\ Step(RtcAfterSdp(Begin("resume"), i, ok))

RtcRemote == \E i \in Ids, ok \in BOOLEAN :
  /\ At(i, "rtc", "remote") /\ (ok => PcAlive(i))
  /\ Step(RtcAfterRemote(Begin("resume"), i, ok))

\* The channel opens once the connection it was created on is established.
DcOpen == \E d \in Ids :
  /\ dcState[d] = "connecting" /\ pcState[dcOwner[d]] = "negotiated"
  /\ Step(DcOnOpen(Begin("callback"), d))

WsOpen == \E w \in Ids :
  wsState[w] = "connecting" /\ Step(WsOnOpen(Begin("callback"), w))

WsError == \E w \in Ids :
  /\ wsState[w] \in {"connecting", "aborting"}
  /\ Step(WsOnError(Begin("callback"), w))

WsClose == \E w \in Ids :
  /\ wsState[w] \in {"open", "closing"}
  /\ Step(WsOnClose(Begin(IF wsState[w] = "open" THEN "remoteClose"
                           ELSE "callback"), w))

WsTimer == \E w \in Ids :
  /\ At(w, "ws", "wsopen")
  /\ Step(WsTimeout(Begin("timeout"), w))

\* live.connect() calls onopen and then resolves, within one task.
GemOpen == \E i \in Ids :
  /\ At(i, "gem", "live")
  /\ Step(GeminiAfterConnect(GeminiOnOpen(Begin("resume")), i, TRUE))

GemFail == \E i \in Ids :
  At(i, "gem", "live") /\ Step(GeminiAfterConnect(Begin("resume"), i, FALSE))

GemClose == \E i \in Ids :
  /\ sessState[i] \in {"open", "closing"}
  /\ Step(GeminiOnClose(Begin(IF sessState[i] = "open" THEN "remoteClose"
                               ELSE "callback"), i))

GemError == \E i \in Ids :
  sessState[i] = "open" /\ Step(GeminiOnError(Begin("callback")))

Next ==
  \/ UConnect \/ UDisconnect \/ USwitchProvider \/ HookConnect
  \/ USendAudio \/ USendText \/ USend \/ USendRealtimeInput
  \/ USendToolResponse
  \/ RtcKey \/ RtcMic \/ RtcOffer \/ RtcLocal \/ RtcSdp \/ RtcRemote \/ DcOpen
  \/ WsOpen \/ WsError \/ WsClose \/ WsTimer
  \/ GemOpen \/ GemFail \/ GemClose \/ GemError

Spec == Init /\ [][Next]_vars

-----------------------------------------------------------------------------
(* The capture specification: the App holds the two adapters itself; the   *)
(* user connects, records and disconnects while frames arrive.  The        *)
(* controls follow the page: model selection and connect while not         *)
(* connected, disconnect and the record button while connected.  One       *)
(* OpenAI adapter object and one AudioRecorder.start are followed at a     *)
(* time.                                                                   *)

InitCapture ==
  /\ host = "app"
  /\ uclient = [status |-> "disconnected", provider |-> "gemini"]
  /\ openai = NewOpenAIClient
  /\ gemini = [status |-> "disconnected", session |-> 0]
  /\ attempt = [i \in Ids |-> NoAttempt]
  /\ pcState = [i \in Ids |-> "closed"]
  /\ dcState = [i \in Ids |-> "closed"]
  /\ dcOwner = [i \in Ids |-> 0]
  /\ audioState = [i \in Ids |-> "closed"]
  /\ micState = "none"
  /\ wsState = [i \in Ids |-> "closed"]
  /\ sessState = [i \in Ids |-> "closed"]
  /\ nextId = 1
  /\ app = NoApp
  /\ wire = <<>>
  /\ streamer = [audioQueue |-> <<>>, isPlaying |-> FALSE]
  /\ audioOut = NoAudioOut
  /\ last = NoOut

SelectModel == \E m \in Providers :
  /\ ~app.isConnected /\ m # app.selectedModel
  /\ Step([Begin("select") EXCEPT !.a.selectedModel = m])

\* The App's connect starts an attempt unless the Gemini adapter rejects it.
AppStarts(s) ==
  s.a.selectedModel = "gemini" => ~GeminiConnectRejects(s)

Connect ==
  LET s == Begin("connect")
  IN /\ ~app.isConnected
     /\ AppStarts(s) => s.next <= MaxAttempts
     /\ app.selectedModel = "openai" =>
          /\ openai.status = "disconnected"
          /\ \A i \in Ids : attempt[i].kind # "rtc"
     /\ Step(AppConnect(s))

Disconnect ==
  app.isConnected /\ Step(AppDisconnect(Begin("disconnect")))

StartRecording ==
  /\ app.isConnected /\ ~app.isRecording /\ app.recorder = "idle"
  /\ Step(AppStartRecording(Begin("startRecording")))

RecorderStarted == \E ok \in BOOLEAN :
  /\ app.recorder = "starting"
  /\ Step(AppAfterRecorderStart(Begin("resume"), ok))

Frame ==
  /\ app.recorder = "running" /\ app.frames < MaxFrames
  /\ Step(RecorderOnAudioProcess(Begin("frame")))

SendInterval ==
  app.interval /\ Step(AppSendInterval(Begin("interval")))

StopRecording ==
  /\ app.isConnected /\ app.isRecording
  /\ Step(AppStopRecording(Begin("stopRecording")))

NextCapture ==
  \/ SelectModel \/ Connect \/ Disconnect
  \/ StartRecording \/ RecorderStarted \/ Frame \/ SendInterval
  \/ StopRecording
  \/ RtcKey \/ RtcMic \/ RtcOffer \/ RtcLocal \/ RtcSdp \/ RtcRemote \/ DcOpen
  \/ GemOpen \/ GemFail \/ GemClose \/ GemError

SpecCapture == InitCapture /\ [][NextCapture]_vars

-----------------------------------------------------------------------------
(* The playback specification: inbound audio buffers arrive at the         *)
(* AudioStreamer, sources end, and stop() is called (on disconnect, and on *)
(* an interrupted event).                                                  *)

InitPlayback == InitCapture

AddPCM16 ==
  /\ audioOut.added < MaxBuffers
  /\ Step(StreamerAddPCM16(Begin("addPCM16")))

Ended == \E b \in audioOut.playing :
  Step(StreamerOnEnded(Begin("ended"), b))

Stop ==
  LET s == StreamerStop(Begin("stop")) IN Commit(s) /\ last' = s.out

NextPlayback == AddPCM16 \/ Ended \/ Stop

SpecPlayback == InitPlayback /\ [][NextPlayback]_vars

-----------------------------------------------------------------------------
(* The recorder specification: start() and stop() of one AudioRecorder,    *)
(* called in any order but for a start() while another start() is pending  *)
(* or capture is running, the resumption of start(), and the frames of the *)
(* processor.                                                              *)

InitRecorder == InitCapture

RecStart ==
  /\ app.recorder = "idle"
  /\ Step(RecorderStart(Begin("start")))

RecGranted == \E ok \in BOOLEAN :
  /\ app.recorder = "starting"
  /\ Step(RecorderAfterGetUserMedia(Begin("resume"), ok))

RecFrame ==
  /\ app.recorder = "running" /\ app.frames < MaxFrames
  /\ Step(RecorderOnAudioProcess(Begin("frame")))

RecStop ==
  LET s == RecorderStop(Begin("stop")) IN Commit(s) /\ last' = s.out

NextRecorder == RecStart \/ RecGranted \/ RecFrame \/ RecStop

SpecRecorder == InitRecorder /\ [][NextRecorder]_vars

-----------------------------------------------------------------------------
(* The inbound specification: either program (the session with its hook,  *)
(* or the App) connects and disconnects while messages arrive on the open  *)
(* transports and playback sources end.                                    *)

InitInbound ==
  /\ host \in {"session", "app"}
  /\ uclient \in [status : {"disconnected"},
                  provider : IF host = "app" THEN {"gemini"} ELSE Providers]
  /\ openai \in [status : {"disconnected"}, pc : {0}, dc : {0}, ws : {0},
                 audioElement : {0}, initialConfig : {FALSE},
                 connectionType : IF host = "app" THEN {"webrtc"}
                                  ELSE ConnectionTypes]
  /\ gemini = [status |-> "disconnected", session |-> 0]
  /\ attempt = [i \in Ids |-> NoAttempt]
  /\ pcState = [i \in Ids |-> "closed"]
  /\ dcState = [i \in Ids |-> "closed"]
  /\ dcOwner = [i \in Ids |-> 0]
  /\ audioState = [i \in Ids |-> "closed"]
  /\ micState = "none"
  /\ wsState = [i \in Ids |-> "closed"]
  /\ sessState = [i \in Ids |-> "closed"]
  /\ nextId = 1
  /\ app = NoApp
  /\ wire = <<>>
  /\ streamer = [audioQueue |-> <<>>, isPlaying |-> FALSE]
  /\ audioOut = NoAudioOut
  /\ last = NoOut

\* Only as many audio buffers arrive as the model follows.
Fits(s) == s.ao.added <= MaxBuffers

WsMessage == \E w \in Ids, data \in InboundData :
  LET s == OpenAIOnMessage(Begin("wsMessage"), data)
  IN wsState[w] = "open" /\ Fits(s) /\ Step(s)

DcMessage == \E d \in Ids, data \in InboundData :
  LET s == OpenAIOnMessage(Begin("dcMessage"), data)
  IN dcState[d] = "open" /\ Fits(s) /\ Step(s)

GemMessage == \E i \in Ids, m \in GeminiMessages :
  LET s == GeminiHandleMessage(Begin("gemMessage"), m)
  IN sessState[i] = "open" /\ Fits(s) /\ Step(s)

SessionCalls == host = "session" /\ (UConnect \/ UDisconnect)

AppCalls == host = "app" /\ (SelectModel \/ Connect \/ Disconnect)

NextInbound ==
  \/ SessionCalls \/ AppCalls
  \/ RtcKey \/ RtcMic \/ RtcOffer \/ RtcLocal \/ RtcSdp \/ RtcRemote \/ DcOpen
  \/ WsOpen \/ WsClose \/ GemOpen \/ GemClose
  \/ WsMessage \/ DcMessage \/ GemMessage \/ Ended

SpecInbound == InitInbound /\ [][NextInbound]_vars

-----------------------------------------------------------------------------
(* The Gemini message specification: either program on the Gemini adapter, *)
(* with every message handleMessage tells apart arriving on the session.   *)

InitGemini ==
  /\ InitInbound
  /\ uclient.provider = "gemini"
  /\ openai.connectionType = "webrtc"

GemAnyMessage == \E i \in Ids, m \in GeminiAnyMessages :
  LET s == GeminiHandleMessage([Begin("gemMessage") EXCEPT !.out.gm = m], m)
  IN sessState[i] = "open" /\ Fits(s) /\ Step(s)

GeminiCalls ==
  \/ host = "session" /\ (UConnect \/ UDisconnect)
  \/ host = "app" /\ app.selectedModel = "gemini" /\ (Connect \/ Disconnect)

NextGemini == GeminiCalls \/ GemOpen \/ GemClose \/ GemAnyMessage

SpecGemini == InitGemini /\ [][NextGemini]_vars

-----------------------------------------------------------------------------
(* The socket specification: the session on the OpenAI adapter over the    *)
(* WebSocket, with more connect attempts than the session specification    *)
(* follows, and with messages arriving on the open sockets.                *)

InitSocket ==
  /\ Init
  /\ uclient.provider = "openai"
  /\ openai.connectionType = "websocket"

SocketConnect ==
  LET s == Begin("connect")
  IN (Starts(s) => s.next <= MaxSockets) /\ Step(UnifiedConnect(s))

SocketHookConnect ==
  LET s == UnifiedDisconnect(Begin("hookConnect"))
  IN (Starts(s) => s.next <= MaxSockets) /\ Step(UnifiedConnect(s))

NextSocket ==
  \/ SocketConnect \/ SocketHookConnect \/ UDisconnect \/ USendText
  \/ USendAudio \/ WsOpen \/ WsError \/ WsClose \/ WsTimer \/ WsMessage

SpecSocket == InitSocket /\ [][NextSocket]_vars

-----------------------------------------------------------------------------
(* Properties of the session specification.                                *)

ProgramVars == <<uclient, openai, gemini, attempt, pcState, dcState, dcOwner,
                 audioState, micState, wsState, sessState, nextId, app, wire,
                 streamer, audioOut>>

AdapterVars == <<openai, gemini, attempt, pcState, dcState, dcOwner,
                 audioState, micState, wsState, sessState, nextId>>

Busy == {"connecting", "connected"}

Emitted(out, e) == \E k \in 1..Len(out.ev) : out.ev[k] = e

\* No open, close or error event among the events of a step.
Quiet(out) ==
  ~Emitted(out, "open") /\ ~Emitted(out, "close") /\ ~Emitted(out, "error")

InFlight == {i \in Ids : attempt[i].at # "none"}

SendOps == {"sendAudio", "sendText", "send", "sendRealtimeInput",
            "sendToolResponse"}

\* C1, on the session: a connect() step taken while the session status is
\* connecting or connected returns false, changes no state of the session or
\* of an adapter, creates no transport and emits no open, close or error.
C1_SessionStep ==
  (last'.op = "connect" /\ uclient.status \in Busy)
    => /\ last'.res = "false"
       /\ UNCHANGED ProgramVars
       /\ Quiet(last') /\ last'.started = 0
       /\ last'.closes = 0 /\ last'.wr = <<>>

\* C1, on an adapter: when the session lets connect() through to an adapter
\* whose own status is connecting or connected, the adapter returns false and
\* nothing of either adapter changes.
C1_AdapterStep ==
  (last'.op = "connect" /\ uclient.status = "disconnected"
     /\ ActiveStatus(Cur) \in Busy)
    => /\ last'.res = "false"
       /\ UNCHANGED AdapterVars
       /\ Quiet(last') /\ last'.started = 0
       /\ last'.closes = 0 /\ last'.wr = <<>>

\* C1: connect() while Connecting or Connected is rejected without side
\* effects, on the session and on either adapter.
C1_ConnectWhileBusyRejected == [][C1_SessionStep /\ C1_AdapterStep]_vars

\* C1 witness: a connect() issued while the session was connecting came back
\* false.
C1_Witness ==
  last.op = "connect" /\ last.preU = "connecting" /\ last.res = "false"

\* C2: when the connect of the active adapter settles with failure, an error
\* event is emitted on the session and the session status is disconnected.
C2_FailedConnectLeavesDisconnected ==
  (last.fin = "false" /\ last.finOf = uclient.provider)
    => uclient.status = "disconnected" /\ Emitted(last, "error")

\* C3: when disconnect() on the session returns, the session status is
\* disconnected, whatever the state it was called in.
C3_DisconnectForcesDisconnected ==
  last.op = "disconnect" => uclient.status = "disconnected"

\* Nothing the OpenAI adapter ever made is still open, and no microphone
\* track is live.
OpenAIHoldsNothing ==
  /\ openai.pc = 0 /\ openai.dc = 0 /\ openai.ws = 0
  /\ openai.audioElement = 0
  /\ \A i \in Ids : /\ pcState[i] = "closed" /\ dcState[i] = "closed"
                    /\ audioState[i] = "closed"
                    /\ wsState[i] \notin {"connecting", "open"}
  /\ micState # "live"

\* C4: right after disconnect() the adapter holds no transport resource, and
\* a connect attempt that disconnect() interrupted holds none and makes none.
C4_DisconnectReleasesEverything ==
  /\ (last.op = "disconnect" /\ uclient.provider = "openai")
       => OpenAIHoldsNothing
  /\ \A i \in Ids : attempt[i].cut =>
       /\ pcState[i] = "closed" /\ dcState[i] = "closed"
       /\ audioState[i] = "closed"
       /\ wsState[i] \notin {"connecting", "open"}

\* C5: at most one connect attempt is in flight.
C5_OneAttemptInFlight == Cardinality(InFlight) <= 1

\* C6: a disconnect() that directly follows a disconnect() of a connected
\* session tears nothing down, leaves the session disconnected, emits nothing
\* and returns false.
C6_SecondDisconnectStep ==
  (last.op = "disconnect" /\ last.preU = "connected"
     /\ last'.op = "disconnect")
    => /\ last'.res = "false" /\ last'.closes = 0 /\ last'.ev = <<>>
       /\ uclient'.status = "disconnected"

C6_DisconnectIdempotent == [][C6_SecondDisconnectStep]_vars

\* C7: a send issued while the session is not connected writes nothing to a
\* transport, throws nothing and emits no error event.
C7_SendWhileNotConnectedDropped ==
  (last.op \in SendOps /\ last.preU # "connected")
    => last.wr = <<>> /\ ~last.exc /\ ~Emitted(last, "error")

-----------------------------------------------------------------------------
(* Properties of the capture specification.                                *)

Frames(w) == {w[k] : k \in 1..Len(w)} \ {0}

\* Every frame is on the wire at most once, and in capture order.
InOrderOnce(w) ==
  \A j, k \in 1..Len(w) : (j < k /\ w[j] # 0 /\ w[k] # 0) => w[j] < w[k]

\* C8, as stated: every frame the capture callback gets while the adapter it
\* sends to is connected is on that adapter's transport, exactly once and in
\* capture order, whichever adapter it is.
C8_FramesForwardedAnyAdapter ==
  /\ InOrderOnce(wire)
  /\ (app.dueGemini \cup app.dueOpenAI) \subseteq Frames(wire)

\* C8, amended: every frame the capture callback gets while the Gemini
\* adapter is the one it sends to and is connected is on the Gemini session
\* as soon as the callback returns, exactly once and in capture order.
C8_GeminiFramesForwardedInOrder ==
  /\ InOrderOnce(wire)
  /\ app.dueGemini \subseteq Frames(wire)

\* C8 witness: several frames were captured while Gemini was connected, and
\* they are on the wire.
C8_Witness ==
  /\ Cardinality(app.dueGemini) >= 2
  /\ last.op = "frame" /\ Len(last.wr) = 1 /\ Len(wire) >= 2

\* C9, the stopRecording step: the chunks in the batch buffer are sent
\* before any turnComplete of the step, a step that sends turnComplete leaves
\* the buffer empty, and once it returns no frame captured for Gemini is
\* unsent.
C9_StopStep ==
  last'.op = "stopRecording" =>
    LET au == AudioOf(last'.wr)
    IN /\ \A k \in 1..Len(app.buffer) :
            \E j \in 1..Len(au) : /\ au[j] = app.buffer[k]
                                  /\ \A i \in 1..(j - 1) : au[i] # 0
       /\ (\E j \in 1..Len(au) : au[j] = 0) => app'.buffer = <<>>
       /\ app'.dueGemini \subseteq Frames(wire')

\* C9, any step: a turnComplete goes on the wire only after every frame
\* captured so far.
C9_EndOfTurnStep ==
  \A k \in (Len(wire) + 1)..Len(wire') :
    wire'[k] = 0 =>
      \A n \in app'.dueGemini : \E j \in 1..(k - 1) : wire'[j] = n

-----------------------------------------------------------------------------
(* Properties of the playback specification.                               *)

\* C10: at most one buffer is being output at a time, and the buffers start
\* in the order they were added.
C10_NoOverlapInOrder ==
  /\ Cardinality(audioOut.playing) <= 1
  /\ InOrderOnce(audioOut.started)

\* The buffers whose source has been started.
Played == {audioOut.started[k] : k \in 1..Len(audioOut.started)}

\* C11: when the step just taken emitted interrupted, the playback queue is
\* empty right after it, and no buffer that was in the queue when an
\* interrupted event was emitted is ever played, whichever program and
\* provider is connected.
C11_InterruptedClearsQueue ==
  /\ Emitted(last, "interrupted") => Len(streamer.audioQueue) = 0
  /\ audioOut.cut \cap Played = {}

\* The number of times event e occurs among the events of a step.
RECURSIVE Count(_, _)
Count(ev, e) ==
  IF ev = <<>> THEN 0
  ELSE (IF Head(ev) = e THEN 1 ELSE 0) + Count(Tail(ev), e)

\* C12: a switchProvider step to a provider other than the current one
\* disconnects the current adapter first, then makes the target current and
\* then emits providerChanged exactly once, as the last event of the step;
\* when it completes the session status is disconnected and the previous
\* adapter is disconnected.
C12_SwitchStep ==
  (last'.op = "switchProvider" /\ uclient'.provider # uclient.provider) =>
    /\ Count(last'.ev, "providerChanged") = 1
    /\ last'.ev[Len(last'.ev)] = "providerChanged"
    /\ uclient'.status = "disconnected"
    /\ uclient.provider = "gemini" => gemini'.status = "disconnected"
    /\ uclient.provider = "openai" => openai'.status = "disconnected"

C12_SwitchDisconnectsThenRebinds == [][C12_SwitchStep]_vars

\* C13, one step: a switchProvider step that names the provider already
\* current changes no state of the session, of an adapter or of a transport,
\* closes nothing and emits no event.
C13_SameProviderStep ==
  (last'.op = "switchProvider" /\ uclient'.provider = uclient.provider) =>
    /\ UNCHANGED ProgramVars
    /\ last'.ev = <<>>
    /\ last'.closes = 0

\* C13: switchProvider(X) while X is the current provider has no effect, in
\* any state: nothing is torn down, status and current provider are
\* unchanged, and no providerChanged is emitted.
C13_SwitchToCurrentIsNoOp == [][C13_SameProviderStep]_vars

\* switchProvider to the current provider was called on a connected session.
C13_Witness ==
  /\ last.op = "switchProvider"
  /\ last.preU = "connected"
  /\ last.ev = <<>>
  /\ uclient.status = "connected"

\* Attempt i has no transport or media object that is open or opening, and
\* no adapter holds a handle made by it.
HoldsNothing(i) ==
  /\ pcState[i] = "closed" /\ dcState[i] = "closed"
  /\ audioState[i] = "closed"
  /\ wsState[i] \notin {"connecting", "open"}
  /\ sessState[i] \notin {"connecting", "open"}
  /\ gemini.session # i
  /\ openai.pc # i /\ openai.dc # i /\ openai.ws # i
  /\ openai.audioElement # i

\* C14: once switchProvider has left an adapter whose connect attempt was in
\* flight while the session was connecting, that attempt is over or aborted:
\* from then on it holds no open connection or media resource and its adapter
\* holds no handle made by it.  An adapter becomes connected and emits open
\* only in a step that opens or negotiates a transport of its attempt, so
\* this also says that the attempt never makes the old adapter connected and
\* never emits open.
C14_SwitchAbortsAttempt == \A i \in Ids : attempt[i].sw => HoldsNothing(i)

\* C15: when the step just taken is the one in which the ephemeral-key
\* issuance of a WebRTC connect failed, the attempt has failed: connect()
\* settled with false, the session is disconnected, exactly one error event
\* was emitted, and the adapter has no peer connection, data channel or audio
\* element.
C15_KeyFailureFailsConnect ==
  last.key = "fallback" =>
    /\ last.fin = "false"
    /\ uclient.status = "disconnected"
    /\ Count(last.ev, "error") = 1
    /\ openai.pc = 0 /\ openai.dc = 0 /\ openai.audioElement = 0

\* The names of the messages a step put on a transport, in order.
Msgs(wr) == [k \in 1..Len(wr) |-> wr[k].msg]

\* C16, one step: a sendText step taken while the OpenAI adapter is the
\* current one, runs over the WebSocket and is connected writes
\* conversation.item.create and then response.create to the adapter's
\* socket, and nothing else.
C16_SendTextStep ==
  (/\ last'.op = "sendText"
   /\ uclient.provider = "openai"
   /\ openai.connectionType = "websocket"
   /\ openai.status = "connected") =>
    /\ Msgs(last'.wr) = <<"conversation.item.create", "response.create">>
    /\ \A k \in 1..Len(last'.wr) :
         last'.wr[k].ch = "ws" /\ last'.wr[k].id = openai.ws

\* C16: every sendText issued while the message-stream adapter is connected
\* puts exactly one conversation.item.create followed immediately by exactly
\* one response.create on the transport.
C16_SendTextWritesItemThenResponse == [][C16_SendTextStep]_vars

\* The events the message-stream adapter is to emit for a well-formed
\* inbound message of type ty.
Canonical(ty) ==
  CASE ty \in {"session.created", "session.updated"} -> <<>>
    [] ty = "response.audio.delta" -> <<"audio">>
    [] ty \in {"response.text.delta", "response.text.done"} -> <<"content">>
    [] ty = "response.done" -> <<"turncomplete">>
    [] ty = "response.cancelled" -> <<"interrupted">>
    [] ty = "error" -> <<"error">>

\* A message of one of the types of the realtime API; an audio delta carries
\* its data.
WellFormed(m) ==
  /\ m.parses
  /\ m.type \in InboundTypes \ {"unrecognized"}
  /\ m.type = "response.audio.delta" => m.delta

\* C17: when the step just taken delivered an inbound message on the socket
\* of the message-stream adapter, the events it emitted are those of the
\* message's type (none for session.created and session.updated, audio for
\* response.audio.delta, content for response.text.delta and
\* response.text.done, turncomplete for response.done, interrupted for
\* response.cancelled, error for error), and no message emits more than one
\* event.
C17_InboundMapping ==
  last.op = "wsMessage" =>
    /\ WellFormed(last.in) => last.ev = Canonical(last.in.type)
    /\ Len(last.ev) <= 1

\* Messages of every type have arrived; here an audio delta was mapped.
C17_Witness ==
  /\ last.op = "wsMessage"
  /\ last.in.type = "response.audio.delta"
  /\ last.ev = <<"audio">>

\* C18, one step: a message on the socket that does not parse, has no known
\* type or is an audio delta without data emits no event, closes nothing and
\* changes no state (adapter status, session status, transports); and a
\* well-formed message that arrives right after such a message is mapped as
\* usual.
C18_DropStep ==
  /\ (last'.op = "wsMessage" /\ ~WellFormed(last'.in)) =>
       /\ last'.ev = <<>>
       /\ last'.closes = 0
       /\ UNCHANGED ProgramVars
  /\ (/\ last.op = "wsMessage" /\ ~WellFormed(last.in)
      /\ last'.op = "wsMessage" /\ WellFormed(last'.in)) =>
       last'.ev = Canonical(last'.in.type)

\* C18: a malformed or unrecognized inbound message is dropped without an
\* event, without a change of adapter or session status and without closing
\* the transport, and later well-formed messages are still processed.
C18_MalformedDropped == [][C18_DropStep]_vars

\* An unparseable message was dropped on a connected adapter whose socket is
\* still open.
C18_Witness ==
  /\ last.op = "wsMessage"
  /\ ~last.in.parses
  /\ last.ev = <<>>
  /\ openai.status = "connected"
  /\ openai.ws # 0 /\ wsState[openai.ws] = "open"

\* C19: when the step just taken is the connect timeout of a socket that was
\* not established, the attempt has failed as a connection error: connect()
\* settled with false, an error event was emitted, and the adapter and the
\* session are disconnected.
C19_TimeoutFailsConnect ==
  (last.op = "timeout" /\ last.fin # "none") =>
    /\ last.fin = "false"
    /\ Emitted(last, "error")
    /\ openai.status = "disconnected"
    /\ uclient.status = "disconnected"

ConnectOps == {"connect", "hookConnect"}

\* No transport made by attempt i is in use.
Inactive(i) ==
  /\ wsState[i] # "open" /\ dcState[i] # "open"
  /\ pcState[i] # "negotiated" /\ sessState[i] # "open"

\* C20, one step: no transport made by a connect attempt that returned
\* failure becomes active; and while such an attempt exists and no other
\* attempt is in flight, a step that is not a connect() call leaves a
\* disconnected adapter and a disconnected session disconnected and emits no
\* open.
C20_NoReconnectStep ==
  \A i \in Ids : attempt[i].failed =>
    /\ Inactive(i)'
    /\ (InFlight = {} /\ last'.op \notin ConnectOps) =>
         /\ ~Emitted(last', "open")
         /\ openai.status = "disconnected" => openai'.status = "disconnected"
         /\ gemini.status = "disconnected" => gemini'.status = "disconnected"
         /\ uclient.status = "disconnected"
              => uclient'.status = "disconnected"

\* C20: after a connect attempt has returned failure nothing reconnects on
\* its own until the caller calls connect() again.
C20_FailedConnectStaysDown == [][C20_NoReconnectStep]_vars

\* What the caller observes of a step: its events and what its close carried.
Observed(out) == [ev |-> out.ev, reason |-> out.reason]

\* What the caller observes when the remote side closes socket w, and when
\* the caller calls disconnect() and the socket then reports its closure.
RemoteClosure(w) == Observed(WsOnClose(Begin("remoteClose"), w).out)

CallerClosure(w) ==
  LET s1 == UnifiedDisconnect(Begin("disconnect"))
      s2 == WsOnClose([s1 EXCEPT !.out.op = "callback"], w)
  IN Observed(s2.out)

\* The same for Gemini session i.
GeminiRemoteClosure(i) == Observed(GeminiOnClose(Begin("remoteClose"), i).out)

GeminiCallerClosure(i) ==
  LET s1 == UnifiedDisconnect(Begin("disconnect"))
      s2 == GeminiOnClose([s1 EXCEPT !.out.op = "callback"], i)
  IN Observed(s2.out)

\* C21: when the step just taken is a closure by the remote side, a close
\* event that carries the reason was emitted and the session is
\* disconnected; and for the connection the active adapter holds open, what
\* the caller observes of a remote closure differs from what it observes of
\* a disconnect() of its own.
C21_RemoteCloseReported ==
  /\ last.op = "remoteClose" =>
       /\ Emitted(last, "close")
       /\ last.reason = "event"
       /\ uclient.status = "disconnected"
  /\ \A w \in Ids :
       (uclient.provider = "openai" /\ openai.ws = w /\ wsState[w] = "open")
         => RemoteClosure(w) # CallerClosure(w)
  /\ \A i \in Ids :
       (uclient.provider = "gemini" /\ gemini.session = i
        /\ sessState[i] = "open")
         => GeminiRemoteClosure(i) # GeminiCallerClosure(i)

\* C22, one step: when AudioRecorder.start rejects because the microphone
\* cannot be captured, recording is not marked active, and the statuses of
\* the session and the adapters, every transport object, what was sent, the
\* connected flag and the playback queue are as before.
C22_CaptureFailureStep ==
  (last'.op = "resume" /\ last'.res = "rejected") =>
    /\ ~app'.isRecording
    /\ app'.recorder = "idle"
    /\ app'.isConnected = app.isConnected
    /\ UNCHANGED <<uclient, AdapterVars, wire, streamer, audioOut>>

\* C22: a capture that cannot start fails to its caller and leaves recording
\* inactive and the session, the transport and the playback path unchanged.
C22_CaptureFailureLeavesSession == [][C22_CaptureFailureStep]_vars

\* The microphone was refused while the App was connected to Gemini.
C22_Witness ==
  /\ last.op = "resume" /\ last.res = "rejected"
  /\ app.isConnected /\ ~app.isRecording
  /\ gemini.status = "connected"

\* C23: in every reachable state at most one of the two adapters is in a
\* status other than disconnected.
C23_OneActiveAdapter ==
  gemini.status = "disconnected" \/ openai.status = "disconnected"

\* disconnect() followed by connect(), as one call sequence on the current
\* state.
Reconnect == UnifiedConnect(UnifiedDisconnect(Begin("hookConnect")))

\* C24: in every reachable state in which no connect attempt is in flight
\* (and the model has attempt ids left), calling disconnect() and then
\* connect() starts a new connection attempt: the session is never stuck in
\* a state where connect() is rejected.
C24_CanAlwaysReconnect ==
  (InFlight = {} /\ nextId <= MaxAttempts) => Reconnect.out.started # 0

\* C25: no inbound audio buffer that was in the playback queue when the
\* caller called disconnect() (on the session, through the hook or in the
\* App) is started afterwards.
C25_DisconnectReleasesQueue == audioOut.held \cap Played = {}

\* C26: on every WebSocket the adapter has made, the first message written is
\* session.update: no audio-append, conversation-item or response-trigger
\* message is written to a socket before its session.update, and the open
\* socket the adapter holds has been sent its session.update.
C26_ConfigFirstOnSocket ==
  openai.connectionType = "websocket" =>
    \A w \in Ids :
      /\ attempt[w].first \in {"none", "session.update"}
      /\ (openai.ws = w /\ wsState[w] = "open")
           => attempt[w].first = "session.update"

\* A socket has carried its session.update and, after it, another message.
C26_Witness ==
  /\ openai.connectionType = "websocket"
  /\ \E w \in Ids : /\ attempt[w].first = "session.update"
                    /\ \E k \in 1..Len(last.wr) :
                         /\ last.wr[k].ch = "ws" /\ last.wr[k].id = w
                         /\ last.wr[k].msg # "session.update"

\* C27: on the data-channel transport no channel is ever sent more than one
\* session.update, none is sent anything before its session.update, and the
\* open channel the adapter holds has been sent exactly one.
C27_ConfigOncePerChannel ==
  openai.connectionType = "webrtc" =>
    \A d \in Ids :
      /\ attempt[d].configs <= 1
      /\ attempt[d].first \in {"none", "session.update"}
      /\ (openai.dc = d /\ dcState[d] = "open") => attempt[d].configs = 1

\* C28: a WebRTC connect attempt that ends in success (status connected, open
\* emitted) ends on a negotiated peer connection, and no attempt one of whose
\* steps failed ends in success.
C28_RtcSuccessStep ==
  \A i \in Ids :
    (attempt[i].kind = "rtc" /\ attempt'[i].kind = "free"
       /\ ~attempt'[i].failed)
      => /\ pcState'[attempt[i].opPc] = "negotiated"
         /\ openai'.status = "connected"
         /\ Emitted(last', "open")
         /\ ~attempt[i].lost

C28_RtcStepFailureFailsConnect == [][C28_RtcSuccessStep]_vars

\* C29: sendAudio on the WebRTC adapter does nothing: it writes to no
\* transport, emits no event, throws nothing and changes no state.
C29_SendAudioStep ==
  (last'.op = "sendAudio" /\ uclient.provider = "openai"
     /\ openai.connectionType = "webrtc")
    => /\ last'.wr = <<>> /\ last'.ev = <<>> /\ ~last'.exc
       /\ UNCHANGED <<uclient, AdapterVars, app, wire, streamer, audioOut>>

C29_RtcSendAudioIsNoOp == [][C29_SendAudioStep]_vars

\* sendAudio was called with the data channel open, a message on which would
\* have gone out.
C29_Witness ==
  /\ last.op = "sendAudio" /\ uclient.provider = "openai"
  /\ openai.connectionType = "webrtc" /\ openai.status = "connected"
  /\ openai.dc # 0 /\ dcState[openai.dc] = "open"

\* C30: in WebRTC mode no step of the OpenAI adapter emits an audio event; a
\* response.audio.delta message on the data channel produces no event.
C30_RtcEmitsNoAudio ==
  (openai.connectionType = "webrtc" /\ last.op # "gemMessage")
    => /\ ~Emitted(last, "audio")
       /\ (last.op = "dcMessage" /\ last.in.type = "response.audio.delta")
            => last.ev = <<>>

\* A response.audio.delta message with audio in it arrived on the data channel.
C30_Witness ==
  /\ openai.connectionType = "webrtc" /\ last.op = "dcMessage"
  /\ last.in.parses /\ last.in.type = "response.audio.delta" /\ last.in.delta

\* C31: a stopRecording step taken while Gemini is the selected model, its
\* adapter is connected and audio has been captured puts a turnComplete on the Gemini session as the last
\* message of the step; one taken while OpenAI is selected puts none anywhere.
C31_StopRecordingStep ==
  last'.op = "stopRecording" =>
    LET m == Msgs(last'.wr)
    IN /\ (/\ app.selectedModel = "gemini" /\ gemini.status = "connected"
           /\ app.dueGemini # {})
            => (Len(m) > 0 /\ m[Len(m)] = "turnComplete")
       /\ app.selectedModel = "openai"
            => \A k \in 1..Len(m) : m[k] # "turnComplete"

C31_StopRecordingEndsTurn == [][C31_StopRecordingStep]_vars

\* C32: a buffer added while nothing is being output and the queue is empty
\* starts playing in the addPCM16 step; a buffer added while another buffer
\* is being output is put on the queue and not started, and a buffer taken
\* off the queue starts only when no other buffer is being output any more.
C32_AddStep ==
  /\ last'.op = "addPCM16" =>
       LET b == audioOut'.added
       IN /\ (audioOut.playing = {} /\ streamer.audioQueue = <<>>)
               => b \in audioOut'.playing
          /\ audioOut.playing # {}
               => /\ b \notin audioOut'.playing
                  /\ \E k \in 1..Len(streamer'.audioQueue) :
                       streamer'.audioQueue[k] = b
  /\ \A k \in 1..Len(streamer.audioQueue) :
       streamer.audioQueue[k] \in audioOut'.playing
         => audioOut'.playing = {streamer.audioQueue[k]}

C32_IdleStartsBusyEnqueues == [][C32_AddStep]_vars

\* C33: a step in which an adapter that is not the current provider, before
\* and after the step, emits an event re-emits nothing on the session and
\* leaves the session status as it was.
C33_ForeignEventStep ==
  \A p \in Providers :
    (p \in last'.from /\ uclient.provider # p /\ uclient'.provider # p)
      => last'.ev = <<>> /\ uclient'.status = uclient.status

C33_InactiveAdapterEventsIgnored == [][C33_ForeignEventStep]_vars

\* C34: whenever no connect call is suspended, the session status is the
\* status of the adapter of the current provider.
C34_StatusMirrorsActiveAdapter ==
  InFlight = {} =>
    uclient.status = (IF uclient.provider = "gemini" THEN gemini.status
                                                     ELSE openai.status)

\* C35: once a later connect attempt has started on the adapter, a callback
\* of an earlier attempt's WebSocket (open, error, close) or the earlier
\* attempt's timeout or rejection leaves the adapter status as it was and
\* emits no event.
C35_StaleCallbackStep ==
  \A w \in Ids :
    (/\ last'.op \in {"callback", "remoteClose"}
     /\ \/ wsState'[w] # wsState[w]
        \/ attempt[w].kind = "ws" /\ attempt'[w].kind = "free"
     /\ nextId > w + 1)
      => openai'.status = openai.status /\ last'.ev = <<>>

C35_StaleCallbacksIgnored == [][C35_StaleCallbackStep]_vars

\* C36: an adapter whose status is connected holds its transport: the OpenAI
\* adapter a peer connection (webrtc) or a WebSocket (websocket), the Gemini
\* adapter a session.
C36_ConnectedHoldsTransport ==
  /\ openai.status = "connected" =>
       IF openai.connectionType = "webrtc" THEN openai.pc # 0
                                           ELSE openai.ws # 0
  /\ gemini.status = "connected" => gemini.session # 0

\* C37: the isPlaying flag of the AudioStreamer is set exactly when a source
\* that was started has not ended yet.
C37_FlagTracksOutput == streamer.isPlaying <=> audioOut.playing # {}

\* The events of a step other than log, in order.
Events(out) == SelectSeq(out.ev, LAMBDA e : e # "log")

\* n audio events.
Audio(n) == [k \in 1..n |-> "audio"]

\* What a message is to emit: one event for the first of setupComplete,
\* interrupted and turnComplete that is set; else, for a modelTurn, one audio
\* event per part in au, in part order, then one content event holding the
\* parts in other, if there are any.
GeminiExpected(m, au, other) ==
  LET flag == m.setupComplete \/ m.interrupted \/ m.turnComplete
      first == IF m.setupComplete THEN <<"setupcomplete">>
               ELSE IF m.interrupted THEN <<"interrupted">>
               ELSE IF m.turnComplete THEN <<"turncomplete">>
               ELSE <<>>
  IN [ev |-> IF flag THEN first
             ELSE Audio(Len(au)) \o (IF other # <<>> THEN <<"content">>
                                                     ELSE <<>>),
      au |-> IF flag THEN <<>> ELSE au,
      content |-> IF flag \/ other = <<>> THEN <<>> ELSE <<other>>]

GeminiObserved(out) ==
  [ev |-> Events(out), au |-> out.au, content |-> out.content]

\* C38, as stated: every message emits by the priority setupComplete >
\* interrupted > turnComplete > modelTurn, and a modelTurn one audio event
\* per audio/pcm part in part order before at most one content event that
\* holds all parts that are not audio.
C38_OneAudioPerAudioPart ==
  last.op = "gemMessage" =>
    LET parts == last.gm.parts
    IN GeminiObserved(last) =
         GeminiExpected(last.gm, PartsOf(parts, AudioPartKinds, 1),
                        PartsOf(parts, OtherPartKinds, 1))

\* C38, amended: the same, with one audio event per audio/pcm part that
\* carries data; an audio/pcm part without data emits nothing.
C38_MessagePriority ==
  last.op = "gemMessage" =>
    LET parts == last.gm.parts
    IN GeminiObserved(last) =
         GeminiExpected(last.gm, PartsOf(parts, {"audio"}, 1),
                        PartsOf(parts, OtherPartKinds, 1))

\* C38 witness: a message with interrupted, turnComplete and a modelTurn of
\* audio and text parts arrived, and only interrupted was emitted.
C38_Witness ==
  /\ last.op = "gemMessage"
  /\ ~last.gm.setupComplete /\ last.gm.interrupted /\ last.gm.turnComplete
  /\ last.gm.modelTurn /\ last.gm.parts = <<"audio", "text">>
  /\ Events(last) = <<"interrupted">>

\* C39: from the return of stop() to the next start() (the data callback is
\* unset) isRecording() is false and no frame invokes the callback; while the
\* callback is set, each frame of the processor invokes it once, and the
\* callback gets the frames in capture order.
C39_StoppedRecorderIsSilent ==
  /\ ~app.onData => (app.recorder # "running" /\ last.cb = 0)
  /\ (app.onData /\ last.op = "frame") =>
       (last.cb = app.frames /\ app.calls[Len(app.calls)] = app.frames)
  /\ InOrderOnce(app.calls)

====
